---- MODULE Spec2Model ----
(***************************************************************************)
(* Model of api/main.py of iot-sensor-logger: the time translator, the     *)
(* access gate, the device directory / presence / telemetry queries over   *)
(* the time-series store, and delete_device over the store and the bus.    *)
(*                                                                         *)
(* Python values: Optional[x] is a sequence of length <= 1 (<<>> is None). *)
(* A str holding a timestamp is a record of what is written in it; a       *)
(* datetime is a record of its fields.  Days count from 0001-01-01, the    *)
(* first day a datetime can hold.                                          *)
(***************************************************************************)
EXTENDS Integers, Sequences, FiniteSets, TLC

VARIABLES
    tin, tpc, tbound, tshown,      \* time translator: input str, position, range bound, display str
    gcfg, gjar, greq, gout,        \* access gate: API_TOKEN, client cookie jar, last request, its outcome
    store, now,                    \* the time-series bucket (set of points) and the store's clock (days)
    req, resp,                     \* last query request (inputs) and its response
    retained,                      \* bus: retained message per topic devices/{id}/status
    run, prev, store0, ret0, prevStore0, prevRet0
                                   \* delete_device: last run, the run before it, and the
                                   \* store/bus contents each of them started from

vars == <<tin, tpc, tbound, tshown, gcfg, gjar, greq, gout, store, now, req, resp,
          retained, run, prev, store0, ret0, prevStore0, prevRet0>>

timeVars   == <<tin, tpc, tbound, tshown>>
gateVars   == <<gcfg, gjar, greq, gout>>
queryVars  == <<store, now, req, resp>>
deleteVars == <<retained, run, prev, store0, ret0, prevStore0, prevRet0>>

NoneV == <<>>
Some(x) == <<x>>

(***************************************************************************)
(* Bounds of the model.                                                    *)
(***************************************************************************)
MaxDay == 2        \* time strings name days 0..MaxDay
MaxSec == 1        \* seconds part 0..MaxSec
MaxFrac == 1       \* sub-second part 0..MaxFrac (0: none written)
MaxSamples == 2    \* points in the bucket
MaxPoints == 1     \* points in the bucket while the telemetry reader is exercised
MaxStep == 3       \* the store's clock takes the values 0, Stride, .., MaxStep*Stride
Stride == 3        \* days between two clock values

(***************************************************************************)
(* Program constants.                                                      *)
(***************************************************************************)
MoscowOffset == 3  \* MOSCOW_TZ = timezone(timedelta(hours=3))
WindowDays == 7    \* range(start: -7d)

Devices == {"d1", "d2"}
\* Python's str order on the device ids, ascending.
DeviceOrder == <<"d1", "d2">>

(***************************************************************************)
(* Time Translator                                                         *)
(***************************************************************************)

\* A str: kind "datetime" is YYYY-MM-DDTHH:MM:SS[.frac][+off], "duration" is a
\* Flux relative time such as -7d, "junk" is anything else.
Str(kind, day, hour, sec, frac, off) ==
    [kind |-> kind, day |-> day, hour |-> hour, sec |-> sec, frac |-> frac, off |-> off]
JunkStr == Str("junk", 0, 0, 0, 0, NoneV)
DurationStr == Str("duration", 0, 0, 0, 0, NoneV)

\* datetime(day, hour, sec, microsecond, tzinfo); tz is None or an offset in hours.
DateTime(day, hour, sec, us, tz) ==
    [day |-> day, hour |-> hour, sec |-> sec, us |-> us, tz |-> tz]

Returned(v) == [raised |-> NoneV, value |-> Some(v)]
Raised(e) == [raised |-> Some(e), value |-> NoneV]

\* datetime.fromisoformat: ValueError unless the str is an ISO datetime; an
\* explicit offset in the str gives an aware datetime.
fromisoformat(s) ==
    IF s.kind = "datetime"
    THEN Returned(DateTime(s.day, s.hour, s.sec, s.frac, s.off))
    ELSE Raised("ValueError")

\* datetime.replace(tzinfo=...): the fields stay, the zone is overwritten.
replace_tzinfo(d, tz) == [d EXCEPT !.tz = tz]

\* aware datetime.astimezone(offset): same instant on the other clock;
\* OverflowError when the result falls before 0001-01-01T00:00.
astimezone(d, off) ==
    LET h == d.day * 24 + d.hour - d.tz[1] + off
    IN  IF h < 0
        THEN Raised("OverflowError")
        ELSE Returned(DateTime(h \div 24, h % 24, d.sec, d.us, Some(off)))

\* datetime.isoformat(): the fraction is written only when non-zero, the
\* offset only for an aware datetime.
isoformat(d) == Str("datetime", d.day, d.hour, d.sec, d.us, d.tz)

\* datetime.isoformat(timespec="seconds"): no fraction.
isoformat_seconds(d) == Str("datetime", d.day, d.hour, d.sec, 0, d.tz)

\* iso_seconds_moscow(ts): None stays None; a naive ts is taken as UTC; the
\* instant is put on the Moscow clock, cut to whole seconds, and written
\* without a zone suffix.
iso_seconds_moscow(ts) ==
    IF ts = NoneV THEN Returned(NoneV)
    ELSE LET aware == IF ts[1].tz = NoneV THEN replace_tzinfo(ts[1], Some(0)) ELSE ts[1]
             moscow_time == astimezone(aware, MoscowOffset)
         IN  IF moscow_time.raised # NoneV THEN Raised(moscow_time.raised[1])
             ELSE Returned(Some(isoformat_seconds(
                      replace_tzinfo([moscow_time.value[1] EXCEPT !.us = 0], NoneV))))

parse_adds_offset(time_str) ==
    LET parsed == fromisoformat(time_str)
    IN  IF parsed.raised # NoneV THEN Returned(time_str)
        ELSE LET utc_dt == astimezone(replace_tzinfo(parsed.value[1], Some(0 - MoscowOffset)), 0)
             IN  IF utc_dt.raised # NoneV THEN utc_dt
                 ELSE Returned(isoformat(utc_dt.value[1]))

\* parse_moscow_time_to_utc(time_str): the ValueError of fromisoformat is
\* caught and the str returned as it is; otherwise the zone of the parsed
\* datetime is overwritten with UTC+3 (also when the str carried its own
\* offset) and the instant written in UTC.  The OverflowError of astimezone
\* is not a ValueError and leaves the function.
parse_moscow_time_to_utc(time_str) ==
    LET parsed == fromisoformat(time_str)
    IN  IF parsed.raised # NoneV THEN Returned(time_str)
        ELSE LET utc_dt == astimezone(replace_tzinfo(parsed.value[1], Some(MoscowOffset)), 0)
             IN  IF utc_dt.raised # NoneV THEN utc_dt
                 ELSE Returned(isoformat(utc_dt.value[1]))

Offsets == {NoneV, Some(0), Some(MoscowOffset)}

TimeStrings ==
    { Str("datetime", d, h, s, f, o) :
        d \in 0..MaxDay, h \in 0..23, s \in 0..MaxSec, f \in 0..MaxFrac, o \in Offsets }
    \cup {JunkStr, DurationStr}

TimeInit ==
    /\ tin \in TimeStrings
    /\ tpc = "input"
    /\ tbound = Returned(JunkStr)
    /\ tshown = Returned(NoneV)

\* to_utc_range_bound: the caller's str becomes a range bound.
TParse ==
    /\ tpc = "input"
    /\ tbound' = parse_moscow_time_to_utc(tin)
    /\ tpc' = "bound"
    /\ UNCHANGED <<tin, tshown>>

\* The instant the bound names (the store reads the RFC 3339 text) is rendered
\* for display.
TShow ==
    /\ tpc = "bound"
    /\ tbound.raised = NoneV
    /\ tbound.value[1].kind = "datetime"
    /\ tbound.value[1].off # NoneV
    /\ tshown' = iso_seconds_moscow(Some(fromisoformat(tbound.value[1]).value[1]))
    /\ tpc' = "shown"
    /\ UNCHANGED <<tin, tbound>>

(***************************************************************************)
(* Access Gate                                                             *)
(***************************************************************************)

Tokens == {"", "secret", "wrong"}
OptTokens == {NoneV} \cup {Some(t) : t \in Tokens}
Routes == {"/api/devices", "/docs", "/openapi.json"}

\* Python truth of an Optional[str]: None and "" are false.
Truthy(o) == o # NoneV /\ o[1] # ""

\* a or b: a when a is true, else b.
PyOr(a, b) == IF Truthy(a) THEN a ELSE b

\* verify_token: provided is the first true value among query token, header,
\* bearer credentials, cookie (the last one when none is true); 401 unless
\* API_TOKEN is set and provided equals it.
verify_token(api_token, token_q, token_h, bearer, token_cookie) ==
    LET provided == PyOr(PyOr(PyOr(token_q, token_h), bearer), token_cookie)
    IN  IF ~Truthy(api_token) \/ provided # api_token THEN "401" ELSE "granted"

\* persist_token_cookie: a true ?token= value is set as the api_token cookie
\* on the response, whatever the gate answered.
persist_token_cookie(jar, token_q) == IF Truthy(token_q) THEN token_q ELSE jar

GateInit ==
    /\ gcfg \in {NoneV, Some(""), Some("secret")}
    /\ gjar = NoneV
    /\ greq = [route |-> "/docs", token_q |-> NoneV, token_h |-> NoneV,
               bearer |-> NoneV, token_cookie |-> NoneV]
    /\ gout = "none"

\* One HTTP request through the app-wide dependency (every route) and the
\* cookie middleware.  The client sends its jar's cookie or none.
GateRequest(route, token_q, token_h, bearer, token_cookie) ==
    /\ greq' = [route |-> route, token_q |-> token_q, token_h |-> token_h,
                bearer |-> bearer, token_cookie |-> token_cookie]
    /\ gout' = verify_token(gcfg, token_q, token_h, bearer, token_cookie)
    /\ gjar' = persist_token_cookie(gjar, token_q)
    /\ UNCHANGED gcfg

GateNext ==
    \E route \in Routes, token_q \in OptTokens, token_h \in OptTokens,
       bearer \in OptTokens, token_cookie \in {NoneV, gjar} :
        GateRequest(route, token_q, token_h, bearer, token_cookie)

(***************************************************************************)
(* The time-series store (external): a bucket of points, each a            *)
(* measurement, a deviceid tag, a timestamp (whole days), a field and its  *)
(* value.  A write to an existing (series, timestamp) replaces the value.  *)
(***************************************************************************)

StatusMeasurements == {"devices", "status"}
DataMeasurements == {"sensors", "bme280"}
StatusValues == {"online", "offline"}
DataFields == {"temperature", "humidity"}
ClockValues == {k * Stride : k \in 0..MaxStep}

Point(m, dev, t, field, val) == [m |-> m, dev |-> dev, t |-> t, field |-> field, val |-> val]
Series(r) == <<r.m, r.dev, r.field>>

WritePoint(s, p) == {r \in s : ~(Series(r) = Series(p) /\ r.t = p.t)} \cup {p}

\* Sequences and orders.
RECURSIVE SetToSortedSeq(_)
SetToSortedSeq(S) ==
    IF S = {} THEN <<>>
    ELSE LET lo == CHOOSE x \in S : \A y \in S : x <= y
         IN  <<lo>> \o SetToSortedSeq(S \ {lo})

Orderings(S) ==
    {q \in [1..Cardinality(S) -> S] : \A i, j \in 1..Cardinality(S) : i # j => q[i] # q[j]}

Rank(d) == CHOOSE i \in 1..Len(DeviceOrder) : DeviceOrder[i] = d

RECURSIVE InsertSorted(_, _)
InsertSorted(d, q) ==
    IF q = <<>> THEN <<d>>
    ELSE IF Rank(d) <= Rank(Head(q)) THEN <<d>> \o q
    ELSE <<Head(q)>> \o InsertSorted(d, Tail(q))

\* Python sorted(ids) on a list of device ids.
RECURSIVE sorted(_)
sorted(ids) == IF ids = <<>> THEN <<>> ELSE InsertSorted(Head(ids), sorted(Tail(ids)))

Range(q) == {q[i] : i \in 1..Len(q)}

\* Flux range(start: -7d): start inclusive, stop (the store's now) exclusive.
Window(s, clock) == {r \in s : clock - WindowDays <= r.t /\ r.t < clock}

\* Flux group(columns: ["deviceid"]) |> last() on the rows of one device: the
\* grouped table is the concatenation of the device's series tables, each in
\* time order, in an order the store chooses (group() does not sort; no
\* sort() precedes last()).  last() returns the table's last row: the newest
\* row of whichever series came last.
GroupLast(rows) ==
    IF rows = {} THEN {NoneV}
    ELSE {Some(r) : r \in {c \in rows : \A x \in rows : Series(x) = Series(c) => x.t <= c.t}}

\* record.get_time(): an aware UTC datetime.
get_time(r) == DateTime(r.t, 0, 0, 0, Some(0))

Display(ts) == iso_seconds_moscow(ts).value[1]

Request(op, deviceid, start, stop, fail) ==
    [op |-> op, deviceid |-> deviceid, start |-> start, stop |-> stop, fail |-> fail]
Response(op, http, body) == [op |-> op, http |-> http, body |-> body]

QueryInit ==
    /\ store = {}
    /\ now = 0
    /\ req = Request("none", "", JunkStr, NoneV, FALSE)
    /\ resp = Response("none", "none", <<>>)

\* Telegraf writes a status sample; samples may arrive late and out of order.
IngestStatus(m, dev, t, val) ==
    /\ resp.op = "none"
    /\ t <= now
    /\ Cardinality(WritePoint(store, Point(m, dev, t, "value", val))) <= MaxSamples
    /\ store' = WritePoint(store, Point(m, dev, t, "value", val))
    /\ UNCHANGED <<now, req, resp>>

\* Telegraf writes one field of a telemetry sample (cap: the bound on the bucket).
IngestData(m, dev, t, field, cap) ==
    /\ resp.op = "none"
    /\ t <= now
    /\ Cardinality(WritePoint(store, Point(m, dev, t, field, "21.5"))) <= cap
    /\ store' = WritePoint(store, Point(m, dev, t, field, "21.5"))
    /\ UNCHANGED <<now, req, resp>>

Tick ==
    /\ resp.op = "none"
    /\ now + Stride \in ClockValues
    /\ now' = now + Stride
    /\ UNCHANGED <<store, req, resp>>

\* The response has left; the next request or write follows.
Respond ==
    /\ resp.op # "none"
    /\ req' = Request("none", "", JunkStr, NoneV, FALSE)
    /\ resp' = Response("none", "none", <<>>)
    /\ UNCHANGED <<store, now>>

(***************************************************************************)
(* Device Directory                                                        *)
(***************************************************************************)

\* list_devices: the Flux pipeline leaves one table per deviceid (deviceid
\* stays in the group key through keep/distinct/union/unique; sort() sorts
\* inside each table); the store hands the tables back in the order `tables`
\* and the handler returns the ids in that order.
list_devices(tables) ==
    LET ids == SelectSeq(tables, LAMBDA d : d # "")
    IN  ids

ListDevices(fail) ==
    /\ resp.op = "none"
    /\ req' = Request("list_devices", "", JunkStr, NoneV, fail)
    /\ IF fail
       THEN resp' = Response("list_devices", "500", <<>>)
       ELSE \E tables \in Orderings({r.dev : r \in {x \in Window(store, now) :
                                                     x.m \in DataMeasurements}}) :
               resp' = Response("list_devices", "200", list_devices(tables))
    /\ UNCHANGED <<store, now>>

StatusRows(s, clock, dev) ==
    {r \in Window(s, clock) : r.m \in StatusMeasurements /\ r.field = "value" /\ r.dev = dev}

\* What the store answers to group |> last over the status stream: per
\* device one row or none.
StatusLast(s, clock) ==
    {f \in [Devices -> UNION {GroupLast(StatusRows(s, clock, d)) : d \in Devices}] :
        \A d \in Devices : f[d] \in GroupLast(StatusRows(s, clock, d))}

\* list_online: of the last rows keep those whose value is "online", one
\* table per deviceid handed back in the order `tables`; sorted(ids).
list_online(tables) ==
    LET ids == SelectSeq(tables, LAMBDA d : d # "")
    IN  sorted(ids)

ListOnline(fail) ==
    /\ resp.op = "none"
    /\ req' = Request("list_online", "", JunkStr, NoneV, fail)
    /\ IF fail
       THEN resp' = Response("list_online", "500", <<>>)
       ELSE \E last \in StatusLast(store, now) :
            \E tables \in Orderings({d \in Devices : last[d] # NoneV /\ last[d][1].val = "online"}) :
               resp' = Response("list_online", "200", list_online(tables))
    /\ UNCHANGED <<store, now>>

(***************************************************************************)
(* Presence Resolver                                                       *)
(***************************************************************************)

DataRows(s, clock, dev) ==
    {r \in Window(s, clock) : r.m \in DataMeasurements /\ r.dev = dev}

\* device_status: status_val/status_ts are those of the row the status query
\* returns, last_data_ts the time of the row the data query returns.
device_status(deviceid, status_row, data_row) ==
    LET status_val == IF status_row = NoneV THEN NoneV ELSE Some(status_row[1].val)
        status_ts == IF status_row = NoneV THEN NoneV ELSE Some(get_time(status_row[1]))
        last_data_ts == IF data_row = NoneV THEN NoneV ELSE Some(get_time(data_row[1]))
    IN  [deviceid |-> deviceid,
         online |-> (status_val = Some("online")),
         statustime |-> Display(status_ts),
         lastdatatime |-> Display(last_data_ts)]

DeviceStatus(deviceid, fail) ==
    /\ resp.op = "none"
    /\ req' = Request("device_status", deviceid, JunkStr, NoneV, fail)
    /\ IF fail
       THEN resp' = Response("device_status", "500", <<>>)
       ELSE \E status_row \in GroupLast(StatusRows(store, now, deviceid)) :
            \E data_row \in GroupLast(DataRows(store, now, deviceid)) :
               resp' = Response("device_status", "200",
                                device_status(deviceid, status_row, data_row))
    /\ UNCHANGED <<store, now>>

(***************************************************************************)
(* Telemetry Reader                                                        *)
(***************************************************************************)

EmptyStr == Str("empty", 0, 0, 0, 0, NoneV)

\* Python truth of an Optional[str] holding a time string.
StrTruthy(o) == o # NoneV /\ o[1].kind # "empty"

\* The store's clock as datetime.now(timezone.utc).
NowUtc(clock) == DateTime(clock, 0, 0, 0, Some(0))

\* Whether the store parses the text as a range bound: an RFC 3339 time or a
\* relative duration; anything else makes the query fail.
IsFluxTime(b) == b.kind \in {"datetime", "duration"}

\* The instant a range bound names, as <<hours, seconds, fraction>>; the
\* duration str is -7d, relative to the store's clock.
BoundInstant(b, clock) ==
    IF b.kind = "duration" THEN <<(clock - WindowDays) * 24, 0, 0>>
    ELSE <<b.day * 24 + b.hour - (IF b.off = NoneV THEN 0 ELSE b.off[1]), b.sec, b.frac>>

Before(a, b) ==
    \/ a[1] < b[1]
    \/ a[1] = b[1] /\ a[2] < b[2]
    \/ a[1] = b[1] /\ a[2] = b[2] /\ a[3] < b[3]

PointInstant(r) == <<r.t * 24, 0, 0>>

\* range(start:, stop:) |> filter(measurement, deviceid) over both streams.
RangeRows(s, clock, deviceid, start_utc, stop_utc) ==
    {r \in s : /\ r.m \in DataMeasurements
               /\ r.dev = deviceid
               /\ ~Before(PointInstant(r), BoundInstant(start_utc, clock))
               /\ Before(PointInstant(r), BoundInstant(stop_utc, clock))}

FieldAt(rows, m, t, field) ==
    IF \E r \in rows : r.m = m /\ r.t = t /\ r.field = field
    THEN Some((CHOOSE r \in rows : r.m = m /\ r.t = t /\ r.field = field).val)
    ELSE NoneV

\* pivot(rowKey: ["_time"], columnKey: ["_field"]): per measurement one row
\* per timestamp, a column per field that has a value there; the handler
\* appends one point per row with the time rendered for display.
RECURSIVE PivotPoints(_, _, _)
PivotPoints(rows, m, times) ==
    IF times = <<>> THEN <<>>
    ELSE <<[time |-> Display(Some(DateTime(Head(times), 0, 0, 0, Some(0)))),
            temperature |-> FieldAt(rows, m, Head(times), "temperature"),
            humidity |-> FieldAt(rows, m, Head(times), "humidity"),
            pressure |-> FieldAt(rows, m, Head(times), "pressure")]>>
         \o PivotPoints(rows, m, Tail(times))

RECURSIVE TablePoints(_, _)
TablePoints(rows, tables) ==
    IF tables = <<>> THEN <<>>
    ELSE PivotPoints(rows, Head(tables),
                     SetToSortedSeq({r.t : r \in {x \in rows : x.m = Head(tables)}}))
         \o TablePoints(rows, Tail(tables))

ErrorBody(e, deviceid, start, stop) ==
    [error |-> Some(e), deviceid |-> deviceid, start |-> start, stop |-> stop, points |-> <<>>]

device_data_narrow_except(s, clock, deviceid, start, stop, fail, tables) ==
    LET start_utc == parse_moscow_time_to_utc(start)
        stop_utc == IF StrTruthy(stop) THEN parse_moscow_time_to_utc(stop[1])
                    ELSE Returned(isoformat(NowUtc(clock)))
    IN  IF start_utc.raised # NoneV \/ stop_utc.raised # NoneV
        THEN Response("device_data", "500", <<>>)
        ELSE IF fail \/ ~IsFluxTime(start_utc.value[1]) \/ ~IsFluxTime(stop_utc.value[1])
        THEN Response("device_data", "500", <<>>)
        ELSE Response("device_data", "200",
                 [error |-> NoneV, deviceid |-> deviceid, start |-> start,
                  stop |-> IF StrTruthy(stop) THEN stop ELSE Display(Some(NowUtc(clock))),
                  points |-> TablePoints(RangeRows(s, clock, deviceid, start_utc.value[1],
                                                   stop_utc.value[1]), tables)])

\* device_data: everything inside try; any Exception (the OverflowError of the
\* time parse, the store refusing or failing the query) gives the error body.
device_data(s, clock, deviceid, start, stop, fail, tables) ==
    LET start_utc == parse_moscow_time_to_utc(start)
        stop_utc == IF StrTruthy(stop) THEN parse_moscow_time_to_utc(stop[1])
                    ELSE Returned(isoformat(NowUtc(clock)))
    IN  IF start_utc.raised # NoneV
        THEN Response("device_data", "200", ErrorBody(start_utc.raised[1], deviceid, start, stop))
        ELSE IF stop_utc.raised # NoneV
        THEN Response("device_data", "200", ErrorBody(stop_utc.raised[1], deviceid, start, stop))
        ELSE IF fail \/ ~IsFluxTime(start_utc.value[1]) \/ ~IsFluxTime(stop_utc.value[1])
        THEN Response("device_data", "200", ErrorBody("ApiException", deviceid, start, stop))
        ELSE Response("device_data", "200",
                 [error |-> NoneV, deviceid |-> deviceid, start |-> start,
                  stop |-> IF StrTruthy(stop) THEN stop ELSE Display(Some(NowUtc(clock))),
                  points |-> TablePoints(RangeRows(s, clock, deviceid, start_utc.value[1],
                                                   stop_utc.value[1]), tables)])

\* The time strings a caller sends: naive local times (one before 03:00 of
\* day 0), one with a fraction, one with an offset, a duration, junk, "".
StartStrings ==
    {Str("datetime", 0, 0, 0, 0, NoneV), Str("datetime", 0, MoscowOffset, 0, 0, NoneV),
     Str("datetime", Stride, MoscowOffset, 0, 1, NoneV),
     Str("datetime", 0, MoscowOffset, 0, 0, Some(0)), DurationStr, JunkStr, EmptyStr}
StopStrings ==
    {NoneV, Some(EmptyStr), Some(JunkStr), Some(Str("datetime", 0, 0, 0, 0, NoneV)),
     Some(Str("datetime", 2 * Stride, MoscowOffset, 0, 0, NoneV))}

DeviceData(deviceid, start, stop, fail) ==
    /\ resp.op = "none"
    /\ req' = Request("device_data", deviceid, start, stop, fail)
    /\ \E tables \in Orderings(DataMeasurements) :
          resp' = device_data(store, now, deviceid, start, stop, fail, tables)
    /\ UNCHANGED <<store, now>>

(***************************************************************************)
(* Device Eraser                                                           *)
(***************************************************************************)

\* The measurement names of the predicates list, in its order; the predicate
\* str _measurement="m" AND deviceid="id" is the pair <<m, id>>.
PredMeasurements == <<"bme280", "status", "sensors", "devices">>
Pred(m, device_id) == <<m, device_id>>
Predicates(device_id) == [i \in 1..Len(PredMeasurements) |-> Pred(PredMeasurements[i], device_id)]

DeletePoints_any_device(s, pred) == {r \in s : r.m # pred[1]}

\* delete_api.delete(start, stop, pred): every point of the measurement and
\* device goes (all modelled timestamps lie in 1970..2100).
DeletePoints(s, pred) == {r \in s : ~(r.m = pred[1] /\ r.dev = pred[2])}

\* dict[key] = value
DictSet(d, k, v) == [x \in DOMAIN d \cup {k} |-> IF x = k THEN v ELSE d[x]]
EmptyDict == [x \in {} |-> FALSE]

\* State of the for loop / the bus block: the bucket, the dict, the calls made.
RECURSIVE delete_loop_stops_at_failure(_, _, _, _, _)
delete_loop_stops_at_failure(s, deleted, calls, predicates, oks) ==
    IF predicates = <<>> THEN [store |-> s, deleted |-> deleted, calls |-> calls]
    ELSE IF Head(oks)
    THEN delete_loop_stops_at_failure(DeletePoints(s, Head(predicates)),
                     DictSet(deleted, Head(predicates), TRUE),
                     Append(calls, Head(predicates)[1]), Tail(predicates), Tail(oks))
    ELSE [store |-> s, deleted |-> DictSet(deleted, Head(predicates), FALSE),
          calls |-> Append(calls, Head(predicates)[1])]

\* for pred in predicates: try delete; deleted[pred] = True; except Exception:
\* deleted[pred] = False.  oks[i] tells whether the i-th delete call returns.
RECURSIVE delete_loop(_, _, _, _, _)
delete_loop(s, deleted, calls, predicates, oks) ==
    IF predicates = <<>> THEN [store |-> s, deleted |-> deleted, calls |-> calls]
    ELSE IF Head(oks)
    THEN delete_loop(DeletePoints(s, Head(predicates)),
                     DictSet(deleted, Head(predicates), TRUE),
                     Append(calls, Head(predicates)[1]), Tail(predicates), Tail(oks))
    ELSE delete_loop(s, DictSet(deleted, Head(predicates), FALSE),
                     Append(calls, Head(predicates)[1]), Tail(predicates), Tail(oks))

BusCalls == <<"connect", "publish", "loop", "disconnect">>
BusOutcomes == {"ok"} \cup Range(BusCalls)

BusResult(ret, cleared, conn, publishes, calls) ==
    [retained |-> ret, mqtt_cleared |-> cleared, conn |-> conn,
     publishes |-> publishes, calls |-> calls]

\* publish(topic, payload=b"", qos=1, retain=True) reaching the broker:
\* the retained message of devices/{id}/status is removed.
ClearRetained(ret, device_id) == [ret EXCEPT ![device_id] = NoneV]

\* The bus block: mqtt_cleared = False; try: connect, publish, loop,
\* disconnect, mqtt_cleared = True; except Exception: mqtt_cleared = False.
\* bus names the call that raises ("ok": none).  The first raise leaves the
\* try, so the calls after it are not made; the connection is open from a
\* returned connect to a returned disconnect.
mqtt_clear(ret, device_id, bus) ==
    IF bus = "connect" THEN BusResult(ret, FALSE, "none", 0, <<"connect">>)
    ELSE IF bus = "publish"
    THEN BusResult(ret, FALSE, "open", 0, <<"connect", "publish">>)
    ELSE IF bus = "loop"
    THEN BusResult(ClearRetained(ret, device_id), FALSE, "open", 1,
                   <<"connect", "publish", "loop">>)
    ELSE IF bus = "disconnect"
    THEN BusResult(ClearRetained(ret, device_id), FALSE, "open", 1, BusCalls)
    ELSE BusResult(ClearRetained(ret, device_id), TRUE, "closed", 1, BusCalls)

\* delete_device(device_id): the loop over the predicates, then the bus
\* block, then the DeleteResult; nothing outside the two try blocks raises.
delete_device(s, ret, device_id, oks, bus) ==
    LET loop == delete_loop(s, EmptyDict, <<>>, Predicates(device_id), oks)
        mq == mqtt_clear(ret, device_id, bus)
    IN  [store |-> loop.store, retained |-> mq.retained,
         result |-> [http |-> "200", device_id |-> device_id,
                     influx_deleted |-> loop.deleted, mqtt_cleared |-> mq.mqtt_cleared,
                     calls |-> loop.calls \o mq.calls, conn |-> mq.conn,
                     publishes |-> mq.publishes, oks |-> oks, bus |-> bus]]

NoRun ==
    [http |-> "none", device_id |-> "", influx_deleted |-> EmptyDict, mqtt_cleared |-> FALSE,
     calls |-> <<>>, conn |-> "none", publishes |-> 0,
     oks |-> [i \in 1..Len(PredMeasurements) |-> FALSE], bus |-> "ok"]

\* What the bucket may hold of a device before a delete: a point in any of
\* the four measurements.
DeleteSeed(d) ==
    {Point(m, d, 0, "value", "online") : m \in StatusMeasurements}
    \cup {Point(m, d, 0, "temperature", "21.5") : m \in DataMeasurements}

\* d1 holds any part of its seed and may have a retained status; d2 holds
\* all of its seed and has one.
DeleteInit ==
    /\ store \in {x \cup DeleteSeed("d2") : x \in SUBSET DeleteSeed("d1")}
    /\ retained \in {[d \in Devices |-> IF d = "d1" THEN m ELSE Some("online")] :
                        m \in {NoneV, Some("online")}}
    /\ run = NoRun
    /\ prev = NoRun
    /\ store0 = store
    /\ ret0 = retained
    /\ prevStore0 = store
    /\ prevRet0 = retained

\* One DELETE /api/devices/{device_id}; requests come one after the other.
\* A run and, for the same device, its re-run are followed; every bucket and
\* bus content a run can start from is an initial one.
DeleteDevice(device_id, oks, bus) ==
    LET out == delete_device(store, retained, device_id, oks, bus)
    IN  /\ prev = NoRun
        /\ run = NoRun \/ run.device_id = device_id
        /\ store' = out.store
        /\ retained' = out.retained
        /\ run' = out.result
        /\ prev' = run
        /\ store0' = store
        /\ ret0' = retained
        /\ prevStore0' = store0
        /\ prevRet0' = ret0

(***************************************************************************)
(* Specifications                                                          *)
(***************************************************************************)

TimeIdle ==
    /\ tin = JunkStr /\ tpc = "idle" /\ tbound = Returned(JunkStr) /\ tshown = Returned(NoneV)
GateIdle ==
    /\ gcfg = NoneV /\ gjar = NoneV /\ gout = "none"
    /\ greq = [route |-> "/docs", token_q |-> NoneV, token_h |-> NoneV,
               bearer |-> NoneV, token_cookie |-> NoneV]
DeleteIdle ==
    /\ retained = [d \in Devices |-> NoneV] /\ run = NoRun /\ prev = NoRun
    /\ store0 = {} /\ ret0 = retained /\ prevStore0 = {} /\ prevRet0 = retained

TimeNext ==
    \/ TParse /\ UNCHANGED <<gateVars, queryVars, deleteVars>>
    \/ TShow /\ UNCHANGED <<gateVars, queryVars, deleteVars>>

InitTime == TimeInit /\ GateIdle /\ QueryInit /\ DeleteIdle
SpecTime == InitTime /\ [][TimeNext]_vars

InitGate == GateInit /\ TimeIdle /\ QueryInit /\ DeleteIdle
NextGate == GateNext /\ UNCHANGED <<timeVars, queryVars, deleteVars>>
SpecGate == InitGate /\ [][NextGate]_vars

Ingest ==
    \/ \E m \in StatusMeasurements, dev \in Devices, t \in ClockValues, val \in StatusValues :
          IngestStatus(m, dev, t, val)
    \/ \E m \in DataMeasurements, dev \in Devices, t \in ClockValues, field \in DataFields :
          IngestData(m, dev, t, field, MaxSamples)

DirNext ==
    \/ Ingest /\ UNCHANGED <<timeVars, gateVars, deleteVars>>
    \/ Tick /\ UNCHANGED <<timeVars, gateVars, deleteVars>>
    \/ Respond /\ UNCHANGED <<timeVars, gateVars, deleteVars>>
    \/ \E fail \in BOOLEAN : ListDevices(fail) /\ UNCHANGED <<timeVars, gateVars, deleteVars>>
    \/ \E fail \in BOOLEAN : ListOnline(fail) /\ UNCHANGED <<timeVars, gateVars, deleteVars>>
    \/ \E deviceid \in Devices, fail \in BOOLEAN :
          DeviceStatus(deviceid, fail) /\ UNCHANGED <<timeVars, gateVars, deleteVars>>

InitQuery == QueryInit /\ TimeIdle /\ GateIdle /\ DeleteIdle
SpecDir == InitQuery /\ [][DirNext]_vars

DataNext ==
    \/ /\ \E m \in DataMeasurements, dev \in Devices, t \in ClockValues, field \in DataFields :
             IngestData(m, dev, t, field, MaxPoints)
       /\ UNCHANGED <<timeVars, gateVars, deleteVars>>
    \/ Respond /\ UNCHANGED <<timeVars, gateVars, deleteVars>>
    \/ Tick /\ UNCHANGED <<timeVars, gateVars, deleteVars>>
    \/ \E deviceid \in Devices, start \in StartStrings, stop \in StopStrings, fail \in BOOLEAN :
          DeviceData(deviceid, start, stop, fail) /\ UNCHANGED <<timeVars, gateVars, deleteVars>>
    \/ \E fail \in BOOLEAN : ListDevices(fail) /\ UNCHANGED <<timeVars, gateVars, deleteVars>>
    \/ \E fail \in BOOLEAN : ListOnline(fail) /\ UNCHANGED <<timeVars, gateVars, deleteVars>>
    \/ \E deviceid \in Devices, fail \in BOOLEAN :
          DeviceStatus(deviceid, fail) /\ UNCHANGED <<timeVars, gateVars, deleteVars>>

SpecData == InitQuery /\ [][DataNext]_vars

DeleteNext ==
    \E device_id \in Devices, oks \in [1..Len(PredMeasurements) -> BOOLEAN],
          bus \in BusOutcomes :
          DeleteDevice(device_id, oks, bus) /\ UNCHANGED <<timeVars, gateVars, now, req, resp>>

InitDelete ==
    /\ DeleteInit /\ TimeIdle /\ GateIdle
    /\ now = 0 /\ req = Request("none", "", JunkStr, NoneV, FALSE)
    /\ resp = Response("none", "none", <<>>)
SpecDelete == InitDelete /\ [][DeleteNext]_vars

(***************************************************************************)
(* Properties                                                              *)
(***************************************************************************)

IsNaive(s) == s.kind = "datetime" /\ s.off = NoneV
\* YYYY-MM-DDTHH:MM:SS, the form iso_seconds_moscow writes.
IsDisplay(s) == IsNaive(s) /\ s.frac = 0
\* The UTC text of local time s minus the Moscow offset.
MinusOffset(s) ==
    Str("datetime", (s.day * 24 + s.hour - MoscowOffset) \div 24,
        (s.day * 24 + s.hour - MoscowOffset) % 24, s.sec, s.frac, Some(0))
RoundTrips ==
    /\ tpc \in {"bound", "shown"} => tbound = Returned(MinusOffset(tin))
    /\ tpc = "shown" => tshown = Returned(Some(tin))

\* C7 (as stated): for every display-format local timestamp t without a
\* sub-second part, the range bound is t minus 3 hours and rendering it back
\* gives t.
C7_RoundTripEveryTimestamp == IsDisplay(tin) => RoundTrips

\* C7 (amended): the same for every such t at or after 03:00 of 0001-01-01;
\* for an earlier t the conversion raises OverflowError and returns no bound.
C7_RoundTripFromThirdHour ==
    /\ IsDisplay(tin) /\ tin.day * 24 + tin.hour >= MoscowOffset => RoundTrips
    /\ IsDisplay(tin) /\ tin.day * 24 + tin.hour < MoscowOffset /\ tpc # "input"
          => tbound = Raised("OverflowError") /\ tpc = "bound"

C7_Witness ==
    /\ tpc = "shown" /\ IsDisplay(tin) /\ tin.day = 1 /\ tin.hour = 1 /\ tin.sec = 1
    /\ tbound = Returned(Str("datetime", 0, 22, 1, 0, Some(0)))
    /\ tshown = Returned(Some(tin))

\* C9: parse_moscow_time_to_utc returns the caller's string unchanged whenever
\* it is not a naive local datetime (in particular when it carries an explicit
\* offset); only naive local datetimes are shifted.
C9_NonNaivePassesThrough ==
    tpc \in {"bound", "shown"} =>
        /\ ~IsNaive(tin) => tbound = Returned(tin)
        /\ tbound # Returned(tin) => IsNaive(tin)

Carriers(r) == {r.token_q, r.token_h, r.bearer, r.token_cookie}

\* C3: a request is granted exactly when a secret is configured and at least
\* one of the four carriers holds it, whatever the others hold; on every route.
C3_GrantedIffAnyCarrierMatches ==
    gout # "none" =>
        (gout = "granted" <=> (Truthy(gcfg) /\ \E c \in Carriers(greq) : c = gcfg))

\* The status samples of a device with the greatest timestamp in the window.
LatestStatus(dev) ==
    {r \in StatusRows(store, now, dev) : \A x \in StatusRows(store, now, dev) : x.t <= r.t}

\* C4: device_status reports online exactly when the latest status sample in
\* the window exists and is "online"; statustime comes from the status stream
\* only, lastdatatime from the data streams only; no samples at all give
\* online=false and both times null.
C4_OnlineIffLatestStatusOnline ==
    resp.op = "device_status" /\ resp.http = "200" =>
        LET latest == LatestStatus(req.deviceid)
            data == DataRows(store, now, req.deviceid)
        IN  /\ resp.body.online => \E r \in latest : r.val = "online"
            /\ latest # {} /\ (\A r \in latest : r.val = "online") => resp.body.online
            /\ resp.body.statustime \in
                 {NoneV} \cup {Display(Some(get_time(r))) : r \in StatusRows(store, now, req.deviceid)}
            /\ (resp.body.statustime = NoneV) = (StatusRows(store, now, req.deviceid) = {})
            /\ resp.body.lastdatatime \in {NoneV} \cup {Display(Some(get_time(r))) : r \in data}
            /\ (resp.body.lastdatatime = NoneV) = (data = {})

StrictlyAscending(ids) == \A i, j \in 1..Len(ids) : i < j => Rank(ids[i]) < Rank(ids[j])

\* C5: list_online never includes a device whose sample with the greatest
\* timestamp in the window is not "online", and its result is sorted
\* ascending without duplicates.
C5_OnlineOnlyIfLatestOnline ==
    resp.op = "list_online" /\ resp.http = "200" =>
        /\ \A d \in Range(resp.body) : \E r \in LatestStatus(d) : r.val = "online"
        /\ StrictlyAscending(resp.body)

\* C6: list_devices returns, strictly ascending and without duplicates, the
\* devices with data in the window, in whatever order the store hands back
\* its tables.
C6_DevicesStrictlyAscending ==
    resp.op = "list_devices" /\ resp.http = "200" =>
        /\ Range(resp.body) = {d \in Devices : DataRows(store, now, d) # {}}
        /\ StrictlyAscending(resp.body)

\* Whether time parsing or the store query of the request fails.
RequestFails(r) ==
    \/ r.fail
    \/ parse_moscow_time_to_utc(r.start).raised # NoneV
    \/ ~IsFluxTime(parse_moscow_time_to_utc(r.start).value[1])
    \/ /\ StrTruthy(r.stop)
       /\ \/ parse_moscow_time_to_utc(r.stop[1]).raised # NoneV
          \/ ~IsFluxTime(parse_moscow_time_to_utc(r.stop[1]).value[1])

\* C2: device_data always answers with a normal body; when time parsing or
\* the store query fails the body holds an error, the echoed deviceid, start
\* and stop, and no points; a store failure in list_devices, list_online and
\* device_status propagates instead.
C2_DeviceDataNeverRaises ==
    /\ resp.op = "device_data" =>
          /\ resp.http = "200"
          /\ resp.body.deviceid = req.deviceid /\ resp.body.start = req.start
          /\ RequestFails(req) =>
                /\ resp.body.error # NoneV
                /\ resp.body.stop = req.stop
                /\ resp.body.points = <<>>
    /\ resp.op \in {"list_devices", "list_online", "device_status"} /\ req.fail
          => resp.http = "500"

C2_Witness ==
    /\ resp.op = "device_data" /\ req.start = JunkStr /\ ~req.fail /\ req.stop = NoneV
    /\ resp.http = "200" /\ resp.body.error = Some("ApiException") /\ resp.body.points = <<>>
    /\ \E r \in store : r.dev = req.deviceid

DevicePoints(s, m, dev) == {r \in s : r.m = m /\ r.dev = dev}

\* C1: every run of delete_device calls all four store deletes and the bus
\* clear whatever fails, answers normally, and reports one boolean per
\* predicate, equal to that delete's own outcome, plus a boolean mqtt_cleared.
C1_EveryTargetAttemptedAndReported ==
    \A r \in {run, prev} : r # NoRun =>
        /\ r.http = "200"
        /\ \A i \in 1..Len(PredMeasurements) : PredMeasurements[i] \in Range(r.calls)
        /\ "connect" \in Range(r.calls)
        /\ DOMAIN r.influx_deleted = Range(Predicates(r.device_id))
        /\ Cardinality(DOMAIN r.influx_deleted) = Len(PredMeasurements)
        /\ \A i \in 1..Len(PredMeasurements) :
              r.influx_deleted[Predicates(r.device_id)[i]] = r.oks[i]
        /\ r.mqtt_cleared \in BOOLEAN

C1_Witness ==
    /\ run # NoRun /\ ~run.oks[1] /\ ~run.oks[3] /\ run.oks[4] /\ run.bus = "connect"
    /\ ~run.influx_deleted[Pred("bme280", run.device_id)]
    /\ run.influx_deleted[Pred("devices", run.device_id)]
    /\ DevicePoints(store0, "devices", run.device_id) # {}
    /\ DevicePoints(store, "devices", run.device_id) = {}
    /\ ~run.mqtt_cleared

\* C10: the bus connection a run opens makes exactly one publish and is closed
\* when the run returns, on every path; mqtt_cleared is true only if connect,
\* publish, loop and disconnect all returned.
C10_BusConnectionAlwaysClosed ==
    run # NoRun =>
        /\ run.conn # "open"
        /\ run.conn # "none" => run.publishes = 1
        /\ run.mqtt_cleared => run.bus = "ok"

AllTrue(r) == r.mqtt_cleared /\ \A p \in DOMAIN r.influx_deleted : r.influx_deleted[p]
CallsReturn(r) == r.bus = "ok" /\ \A i \in 1..Len(PredMeasurements) : r.oks[i]
\* The bucket and the bus after one run in which every target succeeded.
FullyDeleted(s, dev) == {r \in s : ~(r.dev = dev /\ r.m \in Range(PredMeasurements))}
FullyCleared(ret, dev) == [d \in DOMAIN ret |-> IF d = dev THEN NoneV ELSE ret[d]]

FailedStoreTargetsKeepData ==
    run # NoRun =>
        \A i \in 1..Len(PredMeasurements) :
            ~run.influx_deleted[Predicates(run.device_id)[i]] =>
                DevicePoints(store, PredMeasurements[i], run.device_id)
                    = DevicePoints(store0, PredMeasurements[i], run.device_id)

ReRunCompletes ==
    prev # NoRun
    /\ (\A p \in DOMAIN prev.influx_deleted : ~prev.influx_deleted[p] => run.influx_deleted[p])
    /\ (~prev.mqtt_cleared => run.mqtt_cleared)
        => /\ store = FullyDeleted(prevStore0, run.device_id)
           /\ retained = FullyCleared(prevRet0, run.device_id)

\* C8 (as stated): after a run in which every target succeeded a second run
\* changes nothing and reports the same result; after a partly failed run
\* every failed target still holds its data, and a re-run in which they
\* succeed ends where one fully successful run ends.
C8_IdempotentAsStated ==
    /\ prev # NoRun /\ AllTrue(prev) =>
          /\ store = store0 /\ retained = ret0
          /\ run.influx_deleted = prev.influx_deleted /\ run.mqtt_cleared = prev.mqtt_cleared
    /\ FailedStoreTargetsKeepData
    /\ run # NoRun /\ ~run.mqtt_cleared => retained = ret0
    /\ ReRunCompletes

\* C8 (amended): after a run in which every target succeeded a second run
\* changes nothing, and reports the same result when its calls all return
\* again; after a partly failed run every failed store target still holds its
\* data, and so does the bus unless the failure came after the publish; a
\* re-run in which the failed targets succeed ends where one fully successful
\* run ends.
C8_IdempotentAmended ==
    /\ prev # NoRun /\ AllTrue(prev) =>
          /\ store = store0 /\ retained = ret0
          /\ CallsReturn(run) =>
                run.influx_deleted = prev.influx_deleted /\ run.mqtt_cleared = prev.mqtt_cleared
    /\ FailedStoreTargetsKeepData
    /\ run # NoRun /\ run.bus \in {"connect", "publish"} => retained = ret0
    /\ ReRunCompletes

C8_Witness ==
    /\ prev # NoRun /\ run.device_id = "d1" /\ ~AllTrue(prev) /\ AllTrue(run)
    /\ ~prev.influx_deleted[Pred("bme280", "d1")] /\ prev.influx_deleted[Pred("status", "d1")]
    /\ DevicePoints(prevStore0, "bme280", "d1") # {} /\ DevicePoints(prevStore0, "status", "d1") # {}
    /\ DevicePoints(store0, "bme280", "d1") # {} /\ DevicePoints(store0, "status", "d1") = {}
    /\ ~prev.mqtt_cleared /\ prevRet0["d1"] # NoneV /\ ret0["d1"] # NoneV
    /\ store = FullyDeleted(prevStore0, "d1") /\ retained["d1"] = NoneV
    /\ store # {}

====
